---- MODULE Spec2Model ----
(***************************************************************************)
(* Model of the MSPlotly GUI callbacks (src/src/msplotly/app.py).          *)
(*                                                                         *)
(* The state is what the Dash page keeps between callbacks: the figure of  *)
(* the "plot" graph, the selected-trace store, the extreme-homologies      *)
(* store, the pending click, the select-button store, the colorscale mode  *)
(* store and the download component; the server keeps the module-level     *)
(* USER_INPUT object.  Every callback of one page is one atomic action;    *)
(* the Draw requests of several pages are handled by threads of the same   *)
(* server process and are modelled step by step.  The functions of the     *)
(* `plotter` module that main_plot calls are not part of the sources; they *)
(* are modelled from the written specification (sections 3, 4 and 6).      *)
(*                                                                         *)
(* Trace indices ("curve numbers") are 0-based as in the program: the      *)
(* trace with curve number i is data[i + 1].                               *)
(* Colours are pairs <<name, t>>: a solid colour is <<name, 0>> and a      *)
(* colour sampled from a colorscale at position t is <<scale, T>> with     *)
(* T = t * 100000.  Identities are in tenths of a percent (875 = 87.5 %),  *)
(* slider values in percent (75 = 0.75).                                   *)
(***************************************************************************)
EXTENDS Integers, Sequences, FiniteSets, TLC

VARIABLES
    figure,          \* "plot".figure: [data : Seq(trace), tracks : Nat]
    selected,        \* "selected-trace-store".data: list of curve numbers
    extremes,        \* "extreme-homologies-store".data: <<>> or <<lowest, highest>>
    clickData,       \* "plot".clickData: NoClick (None) or a curve number
    selectActive,    \* "select-button-state-store".data
    selectVariant,   \* "select-change-color-button".variant
    isExtreme,       \* "is_set_to_extreme_homologies".data
    extremeVariant,  \* "extreme-homologies-button".variant
    truncateVariant, \* "truncate-colorscale-button".variant
    download,        \* "download-plot-component".data
    disabled,        \* the "disabled" property of the seven update buttons
    USER_INPUT,      \* the module-level UserInput object of the server process
    sessions,        \* the Draw requests of the pages served by the process
    arrows,          \* arrows_plotly.py: the traces of fig and the genes they show
    rowData,         \* "files-table".rowData: list of rows
    selectedRows,    \* "files-table".selectedRows: None or a list of rows
    upload,          \* "upload".filename: the names of the last uploaded files
    steps,           \* number of plot and download callbacks handled since the page loaded
    last             \* history: the last callback, its input and its outcome

vars == <<figure, selected, extremes, clickData, selectActive, selectVariant,
          isExtreme, extremeVariant, truncateVariant, download, disabled,
          USER_INPUT, sessions, arrows, rowData, selectedRows, upload, steps, last>>

plotVars == <<figure, selected, extremes, clickData>>
selectVars == <<selectActive, selectVariant>>
colorscaleVars == <<isExtreme, extremeVariant, truncateVariant>>
tableVars == <<rowData, selectedRows, upload>>
pageVars == <<plotVars, selectVars, colorscaleVars, download, disabled, arrows, tableVars, steps,
              last>>
appVars == <<plotVars, selectVars, colorscaleVars, download, disabled, USER_INPUT,
             sessions, tableVars, steps, last>>

-----------------------------------------------------------------------------
(* Bounds of the model *)

MaxActions == 4

(* Input domains (values the widgets offer) *)

TrackCounts == {2}
GeneCounts == {1}
Tabs == {"tab-main", "tab-edit"}
ColorInputs == {"rgb(0, 255, 255)"}
ColorScales == {"Greys"}
Sliders == {<<0, 75>>, <<50, 50>>}
AnnotateSequencesValues == {"no", "accession"}
AnnotateGenesValues == {"no", "top", "bottom", "top-bottom"}
ScaleBarValues == {"no", "yes"}
GenesInfoValues == {"product"}
MinimumHomologyLengths == {0, 50}
FigureFormats == {"png", "svg"}
Sessions == {"A", "B"}

(* Homology segments the parser may deliver for one pair of tracks *)
Segment(ident, len) == [identity |-> ident, length |-> len]
PairSegments == { <<Segment(500, 30), Segment(875, 100)>> }

-----------------------------------------------------------------------------
(* Scene model: traces, colours and the trace list *)

NoClick == -1
EmptyFigure == [data |-> <<>>, tracks |-> 0]

DefaultWidth == 1
EmphasisWidth == 3
EmphasisColor == <<"selection", 0>>
GeneColor == <<"gene", 0>>
LabelColor == <<"black", 0>>
Solid(name) == <<name, 0>>

Trace(cat, key, fill, text, payload) ==
    [cat |-> cat, key |-> key, fill |-> fill, line |-> fill,
     width |-> DefaultWidth, text |-> text, payload |-> payload]

HasData(fig) == Len(fig.data) > 0

Indices(fig) == 0 .. (Len(fig.data) - 1)

At(fig, i) == fig.data[i + 1]

ToSet(list) == {list[k] : k \in 1 .. Len(list)}

RECURSIVE Keep(_, _)
Keep(data, cats) ==
    IF data = <<>> THEN <<>>
    ELSE IF Head(data).cat \in cats
         THEN Keep(Tail(data), cats)
         ELSE <<Head(data)>> \o Keep(Tail(data), cats)

find_by_category(fig, cat) == {i \in Indices(fig) : At(fig, i).cat = cat}

remove_by_category(fig, cat) == [fig EXCEPT !.data = Keep(fig.data, {cat})]

add_trace(fig, trace) == [fig EXCEPT !.data = Append(fig.data, trace)]

recolor(fig, i, fill, outline, outline_width) ==
    [fig EXCEPT !.data[i + 1].fill = fill,
                !.data[i + 1].line = outline,
                !.data[i + 1].width = outline_width]

make_selection_effect(fig, curve_number) ==
    [fig EXCEPT !.data[curve_number + 1].line = EmphasisColor,
                !.data[curve_number + 1].width = EmphasisWidth]

-----------------------------------------------------------------------------
(* Color scale engine *)

ValidWindow(slider) == 0 <= slider[1] /\ slider[1] < slider[2] /\ slider[2] <= 100

map_identity(p, extreme, lo, hi, vmin, vmax) ==
    IF ~extreme THEN vmin * 1000 + p * (vmax - vmin)
    ELSE IF lo = hi THEN (vmin + vmax) * 500
    ELSE vmin * 1000 + (((p - lo) * (vmax - vmin) * 1000) \div (hi - lo))

render_legend(scale, slider, lo, hi, extreme) ==
    Trace("legend", 0, Solid(scale), "colorbar legend",
          <<slider[1], slider[2], lo, hi, IF extreme THEN 1 ELSE 0>>)

RECURSIVE RecolorHomologies(_, _, _, _, _, _)
RecolorHomologies(data, scale, slider, extreme, lo, hi) ==
    IF data = <<>> THEN <<>>
    ELSE LET t == Head(data)
             c == <<scale, map_identity(t.payload[1], extreme, lo, hi,
                                        slider[1], slider[2])>>
             u == IF t.cat = "homology"
                  THEN [t EXCEPT !.fill = c, !.line = c, !.width = DefaultWidth]
                  ELSE t
         IN  <<u>> \o RecolorHomologies(Tail(data), scale, slider, extreme, lo, hi)

change_homoloy_color_traces(fig, scale, slider, extreme, lo, hi) ==
    [fig EXCEPT !.data = RecolorHomologies(fig.data, scale, slider, extreme, lo, hi)]

plot_colorbar_legend(fig, scale, slider, lo, hi, extreme) ==
    add_trace(fig, render_legend(scale, slider, lo, hi, extreme))

-----------------------------------------------------------------------------
(* Annotation engine *)

RECURSIVE SequenceLabels(_, _, _)
SequenceLabels(k, n, mode) ==
    IF k > n THEN <<>>
    ELSE <<Trace("annotation:sequence", k, LabelColor, mode, <<k>>)>>
         \o SequenceLabels(k + 1, n, mode)

annotate_dna_sequences_using_trace_customdata(fig, mode) ==
    [fig EXCEPT !.data = fig.data \o SequenceLabels(1, fig.tracks, mode)]

RECURSIVE GeneLabels(_, _)
GeneLabels(data, side) ==
    IF data = <<>> THEN <<>>
    ELSE LET t == Head(data) IN
         (IF t.cat = "gene"
          THEN <<Trace("annotation:gene", t.key, LabelColor, t.text, <<t.key, side>>)>>
          ELSE <<>>)
         \o GeneLabels(Tail(data), side)

TopSide == 1
BottomSide == 2

annotate_genes_top_using_trace_customdata(fig) ==
    [fig EXCEPT !.data = fig.data \o GeneLabels(fig.data, TopSide)]

annotate_genes_bottom_using_trace_customdata(fig) ==
    [fig EXCEPT !.data = fig.data \o GeneLabels(fig.data, BottomSide)]

ScaleBar == Trace("scale-bar", 0, LabelColor, "Scale bar", <<>>)

toggle_scale_bar(fig, show) ==
    IF show
    THEN IF find_by_category(fig, "scale-bar") = {} THEN add_trace(fig, ScaleBar) ELSE fig
    ELSE remove_by_category(fig, "scale-bar")

-----------------------------------------------------------------------------
(* Figure construction from the parsed sequences and homology segments *)

Datasets ==
    UNION {{[tracks |-> n, genes |-> g, segs |-> sg] :
                g \in GeneCounts, sg \in [1 .. (n - 1) -> PairSegments]} :
           n \in TrackCounts}

RECURSIVE GeneTraces(_, _, _)
GeneTraces(k, n, info) ==
    IF k > n THEN <<>>
    ELSE <<Trace("gene", k, GeneColor, info, <<k>>)>> \o GeneTraces(k + 1, n, info)

RECURSIVE SegmentTraces(_, _, _, _)
SegmentTraces(segs, pair, j, minlen) ==
    IF j > Len(segs) THEN <<>>
    ELSE (IF segs[j].length >= minlen
          THEN <<Trace("homology", pair * 10 + j, LabelColor, "",
                       <<segs[j].identity, segs[j].length>>)>>
          ELSE <<>>)
         \o SegmentTraces(segs, pair, j + 1, minlen)

RECURSIVE HomologyTraces(_, _, _)
HomologyTraces(ds, pair, minlen) ==
    IF pair >= ds.tracks THEN <<>>
    ELSE SegmentTraces(ds.segs[pair], pair, 1, minlen)
         \o HomologyTraces(ds, pair + 1, minlen)

Identities(data) ==
    {data[k].payload[1] : k \in {j \in 1 .. Len(data) : data[j].cat = "homology"}}

lowest_identity(data) ==
    IF Identities(data) = {} THEN 0
    ELSE CHOOSE x \in Identities(data) : \A y \in Identities(data) : x <= y

highest_identity(data) ==
    IF Identities(data) = {} THEN 0
    ELSE CHOOSE x \in Identities(data) : \A y \in Identities(data) : x >= y

annotate_genes(fig, placement) ==
    IF placement = "top" THEN annotate_genes_top_using_trace_customdata(fig)
    ELSE IF placement = "bottom" THEN annotate_genes_bottom_using_trace_customdata(fig)
    ELSE IF placement = "top-bottom"
         THEN annotate_genes_bottom_using_trace_customdata(
                  annotate_genes_top_using_trace_customdata(fig))
    ELSE fig

annotate_sequences(fig, mode) ==
    IF mode # "no" THEN annotate_dna_sequences_using_trace_customdata(fig, mode)
    ELSE fig

make_figure_gui(user_input) ==
    LET ds == user_input.input_files
        window == <<user_input.colorscale_vmin, user_input.colorscale_vmax>>
        extreme == user_input.set_colorscale_to_extreme_homologies
        polygons == GeneTraces(1, ds.genes, user_input.annotate_genes_with)
                    \o HomologyTraces(ds, 1, user_input.minimum_homology_length)
        lo == lowest_identity(polygons)
        hi == highest_identity(polygons)
        f0 == [data |-> polygons, tracks |-> ds.tracks]
        f1 == change_homoloy_color_traces(f0, user_input.identity_color, window,
                                          extreme, lo, hi)
        f2 == plot_colorbar_legend(f1, user_input.identity_color, window, lo, hi,
                                   extreme)
        f3 == annotate_sequences(f2, user_input.annotate_sequences)
        f4 == annotate_genes(f3, user_input.annotate_genes)
        f5 == toggle_scale_bar(f4, user_input.add_scale_bar)
    IN  [fig |-> f5, lowest |-> lo, highest |-> hi]

-----------------------------------------------------------------------------
(* main_plot: one operator per branch of the callback.  A branch takes the *)
(* State values it reads and gives the four outputs, or raises: an         *)
(* exception in a callback updates no output, so the page keeps its state. *)

Return(fig, sel, click, ext) ==
    [figure |-> fig, selected |-> sel, clickData |-> click, extremes |-> ext,
     err |-> "none"]

Raise(st, kind) ==
    [figure |-> st.figure, selected |-> st.selected, clickData |-> st.clickData,
     extremes |-> st.extremes, err |-> kind]

RECURSIVE RemoveFirst(_, _)
RemoveFirst(list, x) ==
    IF list = <<>> THEN <<>>
    ELSE IF Head(list) = x THEN Tail(list)
    ELSE <<Head(list)>> \o RemoveFirst(Tail(list), x)

RECURSIVE RecolorAll(_, _, _)
RecolorAll(fig, curve_numbers, color) ==
    IF curve_numbers = {} THEN fig
    ELSE LET c == CHOOSE x \in curve_numbers : TRUE
         IN  RecolorAll(recolor(fig, c, color, color, 1), curve_numbers \ {c}, color)

(* UserInput(): every attribute is None until a Draw fills it *)
UserInput ==
    [input_files |-> "None", identity_color |-> "None",
     colorscale_vmin |-> "None", colorscale_vmax |-> "None",
     set_colorscale_to_extreme_homologies |-> "None",
     annotate_sequences |-> "None", annotate_genes |-> "None",
     annotate_genes_with |-> "None", minimum_homology_length |-> "None",
     add_scale_bar |-> "None"]

(* FillUserInput that leaves the minimum homology length at 0 *)
FillUserInput_ForgetsMinimumLength(ds, inp) ==
    [input_files |-> ds,
     identity_color |-> inp.color_scale,
     colorscale_vmin |-> inp.range_slider[1],
     colorscale_vmax |-> inp.range_slider[2],
     set_colorscale_to_extreme_homologies |-> inp.is_extreme,
     annotate_sequences |-> inp.annotate_sequences,
     annotate_genes |-> inp.annotate_genes,
     annotate_genes_with |-> inp.use_genes_info_from,
     minimum_homology_length |-> 0,
     add_scale_bar |-> (inp.scale_bar = "yes")]

(* The assignments of the draw branch to USER_INPUT *)
FillUserInput(ds, inp) ==
    [input_files |-> ds,
     identity_color |-> inp.color_scale,
     colorscale_vmin |-> inp.range_slider[1],
     colorscale_vmax |-> inp.range_slider[2],
     set_colorscale_to_extreme_homologies |-> inp.is_extreme,
     annotate_sequences |-> inp.annotate_sequences,
     annotate_genes |-> inp.annotate_genes,
     annotate_genes_with |-> inp.use_genes_info_from,
     minimum_homology_length |-> inp.minimum_homology_length,
     add_scale_bar |-> (inp.scale_bar = "yes")]

(* PlotUserInput that returns the extremes store as it came in *)
PlotUserInput_KeepsExtremes(st, user_input) ==
    IF ~ValidWindow(<<user_input.colorscale_vmin, user_input.colorscale_vmax>>)
    THEN Raise(st, "InvalidDomain")
    ELSE LET made == make_figure_gui(user_input)
         IN  Return(made.fig, st.selected, NoClick, st.extremes)

(* The call of make_figure_gui on the UserInput object and the return *)
PlotUserInput(st, user_input) ==
    IF ~ValidWindow(<<user_input.colorscale_vmin, user_input.colorscale_vmax>>)
    THEN Raise(st, "InvalidDomain")
    ELSE LET made == make_figure_gui(user_input)
         IN  Return(made.fig, st.selected, NoClick, <<made.lowest, made.highest>>)

PlotSequences(st, ds, inp) == PlotUserInput(st, FillUserInput(ds, inp))

(* ErasePlot that leaves the selected-trace store as it was *)
ErasePlot_KeepsSelection(st) == Return(EmptyFigure, st.selected, NoClick, <<>>)

ErasePlot(st) == Return(EmptyFigure, <<>>, NoClick, <<>>)


(* ChangeHomologyColor without the removal of the old colorbar legend *)
ChangeHomologyColor_KeepsLegend(st, inp) ==
    IF Len(st.extremes) < 2 THEN Raise(st, "IndexError")
    ELSE IF ~ValidWindow(inp.range_slider) THEN Raise(st, "InvalidDomain")
    ELSE LET f1 == change_homoloy_color_traces(st.figure, inp.color_scale,
                       inp.range_slider, inp.is_extreme, st.extremes[1], st.extremes[2])
             f3 == plot_colorbar_legend(f1, inp.color_scale, inp.range_slider,
                       st.extremes[1], st.extremes[2], inp.is_extreme)
         IN  Return(f3, st.selected, NoClick, st.extremes)

(* ChangeHomologyColor that always colours in the fixed mode *)
ChangeHomologyColor_IgnoresMode(st, inp) ==
    IF Len(st.extremes) < 2 THEN Raise(st, "IndexError")
    ELSE IF ~ValidWindow(inp.range_slider) THEN Raise(st, "InvalidDomain")
    ELSE LET f1 == change_homoloy_color_traces(st.figure, inp.color_scale,
                       inp.range_slider, FALSE, st.extremes[1], st.extremes[2])
             f2 == remove_by_category(f1, "legend")
             f3 == plot_colorbar_legend(f2, inp.color_scale, inp.range_slider,
                       st.extremes[1], st.extremes[2], inp.is_extreme)
         IN  Return(f3, st.selected, NoClick, st.extremes)

(* ChangeHomologyColor that always colours in the extreme mode *)
ChangeHomologyColor_AlwaysExtreme(st, inp) ==
    IF Len(st.extremes) < 2 THEN Raise(st, "IndexError")
    ELSE IF ~ValidWindow(inp.range_slider) THEN Raise(st, "InvalidDomain")
    ELSE LET f1 == change_homoloy_color_traces(st.figure, inp.color_scale,
                       inp.range_slider, TRUE, st.extremes[1], st.extremes[2])
             f2 == remove_by_category(f1, "legend")
             f3 == plot_colorbar_legend(f2, inp.color_scale, inp.range_slider,
                       st.extremes[1], st.extremes[2], inp.is_extreme)
         IN  Return(f3, st.selected, NoClick, st.extremes)

(* ChangeHomologyColor that accepts any truncation window *)
ChangeHomologyColor_AnyWindow(st, inp) ==
    IF Len(st.extremes) < 2 THEN Raise(st, "IndexError")
    ELSE LET f1 == change_homoloy_color_traces(st.figure, inp.color_scale,
                       inp.range_slider, inp.is_extreme, st.extremes[1], st.extremes[2])
             f2 == remove_by_category(f1, "legend")
             f3 == plot_colorbar_legend(f2, inp.color_scale, inp.range_slider,
                       st.extremes[1], st.extremes[2], inp.is_extreme)
         IN  Return(f3, st.selected, NoClick, st.extremes)

ChangeHomologyColor(st, inp) ==
    IF Len(st.extremes) < 2 THEN Raise(st, "IndexError")
    ELSE IF ~ValidWindow(inp.range_slider) THEN Raise(st, "InvalidDomain")
    ELSE LET f1 == change_homoloy_color_traces(st.figure, inp.color_scale,
                       inp.range_slider, inp.is_extreme, st.extremes[1], st.extremes[2])
             f2 == remove_by_category(f1, "legend")
             f3 == plot_colorbar_legend(f2, inp.color_scale, inp.range_slider,
                       st.extremes[1], st.extremes[2], inp.is_extreme)
         IN  Return(f3, st.selected, NoClick, st.extremes)


(* ChangeSelectedColor that recolors the fill but not the outline *)
ChangeSelectedColor_FillOnly(st, inp) ==
    LET curve_numbers == ToSet(st.selected)
        color == Solid(inp.color_input)
        fig == [st.figure EXCEPT !.data =
                   [k \in 1 .. Len(st.figure.data) |->
                       IF (k - 1) \in curve_numbers
                       THEN [st.figure.data[k] EXCEPT !.fill = color]
                       ELSE st.figure.data[k]]]
    IN  IF \E c \in curve_numbers : c \notin Indices(st.figure)
        THEN Raise(st, "IndexError")
        ELSE Return(fig, <<>>, NoClick, st.extremes)

(* ChangeSelectedColor that rejects an empty selection *)
ChangeSelectedColor_RejectsEmpty(st, inp) ==
    LET curve_numbers == ToSet(st.selected) IN
    IF curve_numbers = {} \/ \E c \in curve_numbers : c \notin Indices(st.figure)
    THEN Raise(st, "IndexError")
    ELSE Return(RecolorAll(st.figure, curve_numbers, Solid(inp.color_input)),
                <<>>, NoClick, st.extremes)

(* ChangeSelectedColor that skips the curve numbers the figure does not have *)
ChangeSelectedColor_SkipsMissing(st, inp) ==
    LET curve_numbers == ToSet(st.selected) \cap Indices(st.figure) IN
    Return(RecolorAll(st.figure, curve_numbers, Solid(inp.color_input)),
           <<>>, NoClick, st.extremes)

(* ChangeSelectedColor that empties the extremes store with the selection *)
ChangeSelectedColor_DropsExtremes(st, inp) ==
    LET curve_numbers == ToSet(st.selected) IN
    IF \E c \in curve_numbers : c \notin Indices(st.figure) THEN Raise(st, "IndexError")
    ELSE Return(RecolorAll(st.figure, curve_numbers, Solid(inp.color_input)),
                <<>>, NoClick, <<>>)

ChangeSelectedColor(st, inp) ==
    LET curve_numbers == ToSet(st.selected) IN
    IF \E c \in curve_numbers : c \notin Indices(st.figure) THEN Raise(st, "IndexError")
    ELSE Return(RecolorAll(st.figure, curve_numbers, Solid(inp.color_input)),
                <<>>, NoClick, st.extremes)


(* SelectTrace with a deselect that forgets to drop the curve number *)
SelectTrace_KeepsIndex(st, curve_number) ==
    IF curve_number \in ToSet(st.selected)
    THEN LET fillcolor == At(st.figure, curve_number).fill
             fig == [st.figure EXCEPT !.data[curve_number + 1].line = fillcolor,
                                      !.data[curve_number + 1].width = 1]
         IN  Return(fig, st.selected, NoClick, st.extremes)
    ELSE Return(make_selection_effect(st.figure, curve_number),
                Append(st.selected, curve_number), NoClick, st.extremes)

(* SelectTrace with a deselect that forgets to reset the outline width *)
SelectTrace_KeepsWidth(st, curve_number) ==
    IF curve_number \in ToSet(st.selected)
    THEN LET fillcolor == At(st.figure, curve_number).fill
             fig == [st.figure EXCEPT !.data[curve_number + 1].line = fillcolor]
         IN  Return(fig, RemoveFirst(st.selected, curve_number), NoClick, st.extremes)
    ELSE Return(make_selection_effect(st.figure, curve_number),
                Append(st.selected, curve_number), NoClick, st.extremes)

(* SelectTrace that appends the curve number also when it is stored *)
SelectTrace_AlwaysAppends(st, curve_number) ==
    Return(make_selection_effect(st.figure, curve_number),
           Append(st.selected, curve_number), NoClick, st.extremes)

(* SelectTrace that returns the click it handled *)
SelectTrace_KeepsClick(st, curve_number) ==
    IF curve_number \in ToSet(st.selected)
    THEN LET fillcolor == At(st.figure, curve_number).fill
             fig == [st.figure EXCEPT !.data[curve_number + 1].line = fillcolor,
                                      !.data[curve_number + 1].width = 1]
         IN  Return(fig, RemoveFirst(st.selected, curve_number), curve_number,
                    st.extremes)
    ELSE Return(make_selection_effect(st.figure, curve_number),
                Append(st.selected, curve_number), curve_number, st.extremes)

SelectTrace(st, curve_number) ==
    IF curve_number \in ToSet(st.selected)
    THEN LET fillcolor == At(st.figure, curve_number).fill
             fig == [st.figure EXCEPT !.data[curve_number + 1].line = fillcolor,
                                      !.data[curve_number + 1].width = 1]
         IN  Return(fig, RemoveFirst(st.selected, curve_number), NoClick, st.extremes)
    ELSE Return(make_selection_effect(st.figure, curve_number),
                Append(st.selected, curve_number), NoClick, st.extremes)


(* UpdateAnnotateSequences without the removal of the old labels *)
UpdateAnnotateSequences_KeepsLabels(st, inp) ==
    IF inp.annotate_sequences # "no"
    THEN Return(annotate_dna_sequences_using_trace_customdata(st.figure,
                    inp.annotate_sequences),
                st.selected, NoClick, st.extremes)
    ELSE Return(st.figure, st.selected, NoClick, st.extremes)

(* UpdateAnnotateSequences that removes the gene labels in place of the   *)
(* sequence labels                                                         *)
UpdateAnnotateSequences_WrongCategory(st, inp) ==
    LET fig == remove_by_category(st.figure, "annotation:gene") IN
    IF inp.annotate_sequences # "no"
    THEN Return(annotate_dna_sequences_using_trace_customdata(fig, inp.annotate_sequences),
                st.selected, NoClick, st.extremes)
    ELSE Return(fig, st.selected, NoClick, st.extremes)

UpdateAnnotateSequences(st, inp) ==
    LET fig == remove_by_category(st.figure, "annotation:sequence") IN
    IF inp.annotate_sequences # "no"
    THEN Return(annotate_dna_sequences_using_trace_customdata(fig, inp.annotate_sequences),
                st.selected, NoClick, st.extremes)
    ELSE Return(fig, st.selected, NoClick, st.extremes)


(* ToggleScaleBar that draws a scale bar on every "yes" *)
ToggleScaleBar_AlwaysAdds(st, inp) ==
    LET show == (inp.scale_bar = "yes")
    IN  Return(IF show THEN add_trace(st.figure, ScaleBar)
               ELSE toggle_scale_bar(st.figure, show),
               st.selected, NoClick, st.extremes)

ToggleScaleBar(st, inp) ==
    LET show == (inp.scale_bar = "yes")
    IN  Return(toggle_scale_bar(st.figure, show), st.selected, NoClick, st.extremes)


(* UpdateAnnotateGenes without the removal of the old gene labels *)
UpdateAnnotateGenes_KeepsLabels(st, inp) ==
    LET fig == st.figure IN
    IF inp.annotate_genes = "top"
    THEN Return(annotate_genes_top_using_trace_customdata(fig),
                st.selected, NoClick, st.extremes)
    ELSE IF inp.annotate_genes = "bottom"
    THEN Return(annotate_genes_bottom_using_trace_customdata(fig),
                st.selected, NoClick, st.extremes)
    ELSE IF inp.annotate_genes = "top-bottom"
    THEN Return(annotate_genes_bottom_using_trace_customdata(
                    annotate_genes_top_using_trace_customdata(fig)),
                st.selected, NoClick, st.extremes)
    ELSE Return(fig, st.selected, NoClick, st.extremes)

(* UpdateAnnotateGenes whose "top-bottom" forgets the labels below the genes *)
UpdateAnnotateGenes_ForgetsBottom(st, inp) ==
    LET fig == remove_by_category(st.figure, "annotation:gene") IN
    IF inp.annotate_genes = "top"
    THEN Return(annotate_genes_top_using_trace_customdata(fig),
                st.selected, NoClick, st.extremes)
    ELSE IF inp.annotate_genes = "bottom"
    THEN Return(annotate_genes_bottom_using_trace_customdata(fig),
                st.selected, NoClick, st.extremes)
    ELSE IF inp.annotate_genes = "top-bottom"
    THEN Return(annotate_genes_top_using_trace_customdata(fig),
                st.selected, NoClick, st.extremes)
    ELSE Return(fig, st.selected, NoClick, st.extremes)

UpdateAnnotateGenes(st, inp) ==
    LET fig == remove_by_category(st.figure, "annotation:gene") IN
    IF inp.annotate_genes = "top"
    THEN Return(annotate_genes_top_using_trace_customdata(fig),
                st.selected, NoClick, st.extremes)
    ELSE IF inp.annotate_genes = "bottom"
    THEN Return(annotate_genes_bottom_using_trace_customdata(fig),
                st.selected, NoClick, st.extremes)
    ELSE IF inp.annotate_genes = "top-bottom"
    THEN Return(annotate_genes_bottom_using_trace_customdata(
                    annotate_genes_top_using_trace_customdata(fig)),
                st.selected, NoClick, st.extremes)
    ELSE Return(fig, st.selected, NoClick, st.extremes)

(* The default return that empties the selection store *)
Unchanged_ClearsSelection(st) == Return(st.figure, <<>>, NoClick, st.extremes)

Unchanged(st) == Return(st.figure, st.selected, NoClick, st.extremes)

(* main_plot whose select branch does not look at the active tab *)
main_plot_AnyTab(button_id, click_data, virtual, active_tab, select_button_state, st, inp) ==
    IF button_id = "draw-button" /\ virtual # <<>>
    THEN PlotSequences(st, virtual[1], inp)
    ELSE IF button_id = "erase-button" THEN ErasePlot(st)
    ELSE IF button_id = "change-homology-color-button" THEN ChangeHomologyColor(st, inp)
    ELSE IF button_id = "change-gene-color-button" THEN ChangeSelectedColor(st, inp)
    ELSE IF click_data # NoClick /\ select_button_state
    THEN SelectTrace(st, click_data)
    ELSE IF HasData(st.figure) /\ button_id = "update-annotate-sequences-button"
    THEN UpdateAnnotateSequences(st, inp)
    ELSE IF HasData(st.figure) /\ button_id = "update-scale-bar-button"
    THEN ToggleScaleBar(st, inp)
    ELSE IF HasData(st.figure) /\ button_id = "update-annotate-genes-button"
    THEN UpdateAnnotateGenes(st, inp)
    ELSE Unchanged(st)

(* The branch order of main_plot.  virtual is the parsed content of the    *)
(* files table, or <<>> when the table is empty.                           *)
main_plot(button_id, click_data, virtual, active_tab, select_button_state, st, inp) ==
    IF button_id = "draw-button" /\ virtual # <<>>
    THEN PlotSequences(st, virtual[1], inp)
    ELSE IF button_id = "erase-button" THEN ErasePlot(st)
    ELSE IF button_id = "change-homology-color-button" THEN ChangeHomologyColor(st, inp)
    ELSE IF button_id = "change-gene-color-button" THEN ChangeSelectedColor(st, inp)
    ELSE IF active_tab = "tab-edit" /\ click_data # NoClick /\ select_button_state
    THEN SelectTrace(st, click_data)
    ELSE IF HasData(st.figure) /\ button_id = "update-annotate-sequences-button"
    THEN UpdateAnnotateSequences(st, inp)
    ELSE IF HasData(st.figure) /\ button_id = "update-scale-bar-button"
    THEN ToggleScaleBar(st, inp)
    ELSE IF HasData(st.figure) /\ button_id = "update-annotate-genes-button"
    THEN UpdateAnnotateGenes(st, inp)
    ELSE Unchanged(st)

(* arrows_plotly.py: two genes drawn as arrows.  Arrow is imported from   *)
(* the module arrow; its outline follows the Arrow and gene_to_arrow of    *)
(* the specification.  Coordinates are pixels.                             *)

head_height == 4
HeadLengthPercent == 20
MinimumHeadLength == 5
ArrowCount == 2

GeneStarts == {10, 20}
GeneLengths == {2, 20}
Strands == {"+", "-"}
Scales == {1, 2}
TrackYs == {10, 20}
Genes ==
    {[start |-> a, end |-> a + n, strand |-> d] :
        a \in GeneStarts, n \in GeneLengths, d \in Strands}

NoArrows == [data |-> <<>>, genes |-> <<>>]

Abs(n) == IF n < 0 THEN -n ELSE n

Arrow(x1, x2, y, height) == [x1 |-> x1, x2 |-> x2, y |-> y, head_height |-> height]

(* The closed outline from the tail x1 to the tip x2: a shaft and a       *)
(* triangular head of 20 % of the length, or a triangle alone when the     *)
(* arrow is shorter than the minimum head length.                          *)
get_coordinates(a) ==
    LET len == Abs(a.x2 - a.x1)
        dir == IF a.x2 >= a.x1 THEN 1 ELSE -1
        neck == a.x2 - dir * ((len * HeadLengthPercent) \div 100)
        hh == a.head_height \div 2
        bh == a.head_height \div 4
    IN  IF len < MinimumHeadLength
        THEN [x |-> <<a.x1, a.x2, a.x1, a.x1>>,
              y |-> <<a.y - hh, a.y, a.y + hh, a.y - hh>>]
        ELSE [x |-> <<a.x1, neck, neck, a.x2, neck, neck, a.x1, a.x1>>,
              y |-> <<a.y - bh, a.y - bh, a.y - hh, a.y, a.y + hh, a.y + bh,
                      a.y + bh, a.y - bh>>]

(* A gene of the "-" strand points from its end to its start *)
gene_to_arrow(gene, track_y, scale) ==
    IF gene.strand = "+"
    THEN get_coordinates(Arrow(gene.start * scale, gene.end * scale, track_y, head_height))
    ELSE get_coordinates(Arrow(gene.end * scale, gene.start * scale, track_y, head_height))

(* plot_polygon that takes the y values for the x values *)
plot_polygon_SwapsAxes(fig, x_values, y_values, color, name) ==
    Append(fig, [x |-> y_values, y |-> x_values, line |-> color, fillcolor |-> color,
                 name |-> name])

plot_polygon(fig, x_values, y_values, color, name) ==
    Append(fig, [x |-> x_values, y |-> y_values, line |-> color, fillcolor |-> color,
                 name |-> name])

(* arrow_1, arrow_2: build the arrow of a gene and plot it *)
PlotArrow ==
    /\ Len(arrows.data) < ArrowCount
    /\ \E gene \in Genes, track_y \in TrackYs, scale \in Scales :
           LET c == gene_to_arrow(gene, track_y, scale)
               name == IF arrows.data = <<>> THEN "gene1" ELSE "gene2"
           IN  arrows' = [data |-> plot_polygon(arrows.data, c.x, c.y, "blue", name),
                          genes |-> Append(arrows.genes, <<gene, track_y, scale>>)]
    /\ UNCHANGED appVars

(* The file table of the main tab.  A row is the name of an uploaded file *)
(* and the path it was saved under.                                        *)

MaxRows == 3

FileNames == {"a.gb", "b.gb"}
UploadBatches == UNION {[1 .. n -> FileNames] : n \in 1 .. 2}

(* selectedRows is None until the grid reports a selection *)
NoSelectedRows == [none |-> TRUE, rows |-> <<>>]
SelectedRows(rows) == [none |-> FALSE, rows |-> rows]

save_uploaded_file(file_name, content) == <<"TMP_PATH", file_name>>

Contents(filenames) == [k \in 1 .. Len(filenames) |-> <<"base64", filenames[k]>>]

(* The rows of a list at the positions not in skipped, in their order *)
NotInPositions(list, skipped) ==
    LET RECURSIVE Pick(_)
        Pick(k) == IF k > Len(list) THEN <<>>
                   ELSE IF k \in skipped THEN Pick(k + 1)
                   ELSE <<list[k]>> \o Pick(k + 1)
    IN  Pick(1)

RECURSIVE NotIn(_, _)
NotIn(current_row_data, rows) ==
    IF current_row_data = <<>> THEN <<>>
    ELSE IF Head(current_row_data) \in rows
         THEN NotIn(Tail(current_row_data), rows)
         ELSE <<Head(current_row_data)>> \o NotIn(Tail(current_row_data), rows)

(* update_file_table that shows the uploaded files only *)
update_file_table_ReplacesRows(ctx_id, filenames, contents, current_row_data, selected_rows) ==
    IF ctx_id = "upload" /\ filenames # <<>> /\ contents # <<>>
    THEN [data |-> [k \in 1 .. Len(filenames) |->
                       [filename |-> filenames[k],
                        filepath |-> save_uploaded_file(filenames[k], contents[k])]],
          err |-> "none"]
    ELSE IF ctx_id = "delete-selected-files-button"
    THEN IF current_row_data # <<>> /\ selected_rows.none
         THEN [data |-> current_row_data, err |-> "TypeError"]
         ELSE [data |-> NotIn(current_row_data, ToSet(selected_rows.rows)), err |-> "none"]
    ELSE [data |-> current_row_data, err |-> "none"]

(* update_file_table: the new rowData, or the exception that leaves it.    *)
(* 'row not in selected_rows' raises TypeError when selected_rows is None  *)
(* and the table has a row.                                                *)
update_file_table(ctx_id, filenames, contents, current_row_data, selected_rows) ==
    IF ctx_id = "upload" /\ filenames # <<>> /\ contents # <<>>
    THEN LET new_rows == [k \in 1 .. Len(filenames) |->
                             [filename |-> filenames[k],
                              filepath |-> save_uploaded_file(filenames[k], contents[k])]]
         IN  [data |-> current_row_data \o new_rows, err |-> "none"]
    ELSE IF ctx_id = "delete-selected-files-button"
    THEN IF current_row_data # <<>> /\ selected_rows.none
         THEN [data |-> current_row_data, err |-> "TypeError"]
         ELSE [data |-> NotIn(current_row_data, ToSet(selected_rows.rows)), err |-> "none"]
    ELSE [data |-> current_row_data, err |-> "none"]

nonTableVars == <<plotVars, selectVars, colorscaleVars, download, disabled, USER_INPUT,
                  sessions, arrows, steps>>

(* The user drops files on the upload area *)
UploadFiles ==
    \E filenames \in UploadBatches :
        /\ Len(rowData) + Len(filenames) <= MaxRows
        /\ \E r \in {update_file_table("upload", filenames, Contents(filenames),
                                        rowData, selectedRows)} :
               /\ rowData' = r.data
               /\ last' = [op |-> "upload", idx |-> -1, tab |-> "tab-main", err |-> r.err]
        /\ upload' = filenames
        /\ UNCHANGED <<selectedRows, nonTableVars>>

(* The call at page load, which nothing triggers, and an upload event      *)
(* without files.                                                          *)
OtherTrigger ==
    \E ctx_id \in {"", "upload"} :
        /\ \E r \in {update_file_table(ctx_id, <<>>, <<>>, rowData, selectedRows)} :
               /\ rowData' = r.data
               /\ last' = [op |-> "no-files", idx |-> -1, tab |-> "tab-main",
                           err |-> r.err]
        /\ upload' = <<>>
        /\ UNCHANGED <<selectedRows, nonTableVars>>

(* The user ticks rows of the grid; the grid reports the ticked rows *)
SelectRows ==
    \E ticked \in SUBSET (1 .. Len(rowData)) :
        /\ selectedRows' = SelectedRows(NotInPositions(rowData, (1 .. Len(rowData)) \ ticked))
        /\ last' = [op |-> "selectedRows", idx |-> -1, tab |-> "tab-main", err |-> "none"]
        /\ UNCHANGED <<rowData, upload, nonTableVars>>

(* Delete Selected.  After the table changed the grid may report that no   *)
(* row is ticked any more.                                                 *)
DeleteSelected ==
    \E r \in {update_file_table("delete-selected-files-button", upload,
                                 Contents(upload), rowData, selectedRows)} :
        /\ rowData' = r.data
        /\ last' = [op |-> "delete-selected-files-button", idx |-> -1,
                    tab |-> "tab-main", err |-> r.err]
        /\ selectedRows' \in IF r.err = "none" /\ r.data # rowData
                              THEN {selectedRows, SelectedRows(<<>>)}
                              ELSE {selectedRows}
        /\ UNCHANGED <<upload, nonTableVars>>

(* The seven buttons that toggle_update_buttons writes *)
UpdateButtons ==
    {"erase-button", "update-annotate-sequences-button",
     "update-annotate-genes-button", "update-scale-bar-button",
     "change-gene-color-button", "change-homology-color-button",
     "select-change-color-button"}

(* The "disabled" property the layout gives the buttons: only the select  *)
(* button is created with disabled=True.                                   *)
LayoutDisabled ==
    [b \in UpdateButtons |-> b = "select-change-color-button"]

(* toggle_update_buttons that leaves the select button enabled *)
toggle_update_buttons_SelectEnabled(fig) ==
    [b \in UpdateButtons |-> ~HasData(fig) /\ b # "select-change-color-button"]

toggle_update_buttons(fig) ==
    IF HasData(fig)
    THEN [b \in UpdateButtons |-> FALSE]
    ELSE [b \in UpdateButtons |-> TRUE]

-----------------------------------------------------------------------------
(* The small callbacks: what each handler returns for its arguments *)

NoClicks == 0

(* toggle_select_button with a select that sticks: a press never leaves it *)
ToggleSelect_Latches(n_clicks, is_active) ==
    LET active == IF n_clicks # NoClicks THEN TRUE ELSE is_active
    IN  [variant |-> IF active THEN "filled" ELSE "outline", data |-> active]

(* The body of toggle_select_button; n_clicks is NoClicks (None) when Dash *)
(* calls it while the page loads.                                          *)
ToggleSelect(n_clicks, is_active) ==
    LET active == IF n_clicks # NoClicks THEN ~is_active ELSE is_active
    IN  [variant |-> IF active THEN "filled" ELSE "outline", data |-> active]

option1 == [extreme |-> "subtle", truncate |-> "filled", data |-> FALSE]
option2 == [extreme |-> "filled", truncate |-> "subtle", data |-> TRUE]

(* toggle_colorscale_buttons that answers the truncate button with option2 *)
ToggleColorscale_TruncateGivesExtreme(triggered_id) ==
    IF triggered_id = "" THEN option1
    ELSE IF triggered_id = "extreme-homologies-button" THEN option2
    ELSE IF triggered_id = "truncate-colorscale-button" THEN option2
    ELSE option1

(* The body of toggle_colorscale_buttons; triggered_id is "" when nothing  *)
(* triggered the call (page load).                                         *)
ToggleColorscale(triggered_id) ==
    IF triggered_id = "" THEN option1
    ELSE IF triggered_id = "extreme-homologies-button" THEN option2
    ELSE IF triggered_id = "truncate-colorscale-button" THEN option1
    ELSE option1

NoDownload == [filename |-> <<>>, type |-> ""]

(* What the export can end in: figure["data"] fails on a figure that was   *)
(* never set (None) or was erased ({}); a figure with data is rendered by  *)
(* write_image, which returns or raises.                                   *)
ExportOutcomes(fig) ==
    IF HasData(fig) THEN {"none", "RenderFailure"} ELSE {"TypeError", "KeyError"}

download_plot(fig, figure_format, outcome) ==
    IF outcome = "none"
    THEN [data |-> [filename |-> <<"plot", figure_format>>, type |-> figure_format],
          err |-> "none"]
    ELSE [data |-> NoDownload, err |-> outcome]

-----------------------------------------------------------------------------
(* The page: initial state and one action per callback trigger *)

(* The values of the widgets when the page loads *)
Defaults ==
    [color_input |-> "rgb(0, 255, 255)",
     color_scale |-> "Greys",
     range_slider |-> <<0, 75>>,
     minimum_homology_length |-> 0,
     annotate_sequences |-> "no",
     annotate_genes |-> "no",
     scale_bar |-> "yes",
     use_genes_info_from |-> "product"]

(* The widget values a callback may find; each action varies the ones its  *)
(* branch of main_plot reads and leaves the others at their defaults.      *)
(* Draw finds the two annotation selects at "no" and the range slider at   *)
(* its default: labels come from the update actions of the annotate tab,   *)
(* other windows from the update of the homology colours.                  *)
DrawInputs ==
    {[Defaults EXCEPT !.color_scale = cs,
                      !.minimum_homology_length = ml,
                      !.scale_bar = sb, !.use_genes_info_from = gi] :
        cs \in ColorScales, ml \in MinimumHomologyLengths,
        sb \in ScaleBarValues, gi \in GenesInfoValues}

ColorscaleInputs ==
    {[Defaults EXCEPT !.color_scale = cs, !.range_slider = rs] :
        cs \in ColorScales, rs \in Sliders}

ColorInputValues == {[Defaults EXCEPT !.color_input = c] : c \in ColorInputs}

AnnotateSequencesInputs ==
    {[Defaults EXCEPT !.annotate_sequences = as] : as \in AnnotateSequencesValues}

AnnotateGenesInputs ==
    {[Defaults EXCEPT !.annotate_genes = ag] : ag \in AnnotateGenesValues}

ScaleBarInputs == {[Defaults EXCEPT !.scale_bar = sb] : sb \in ScaleBarValues}

Inputs(w) ==
    [color_input |-> w.color_input, color_scale |-> w.color_scale,
     range_slider |-> w.range_slider,
     minimum_homology_length |-> w.minimum_homology_length,
     annotate_sequences |-> w.annotate_sequences,
     annotate_genes |-> w.annotate_genes,
     scale_bar |-> w.scale_bar,
     add_scale_bar |-> (w.scale_bar = "yes"),
     use_genes_info_from |-> w.use_genes_info_from,
     is_extreme |-> isExtreme]

PageState ==
    [figure |-> figure, selected |-> selected, clickData |-> clickData,
     extremes |-> extremes]

(* A page's Draw request in the server: where its thread stands, what the  *)
(* page submitted and what the thread returned.                            *)
Idle == [pc |-> "idle", submitted |-> <<>>, figure |-> EmptyFigure, err |-> "none"]

Last(op, idx, tab, err) == [op |-> op, idx |-> idx, tab |-> tab, err |-> err]

Init ==
    /\ figure = EmptyFigure
    /\ selected = <<>>
    /\ extremes = <<>>
    /\ clickData = NoClick
    /\ selectActive = FALSE
    /\ selectVariant = "outline"
    /\ isExtreme = FALSE
    /\ extremeVariant = "subtle"
    /\ truncateVariant = "filled"
    /\ download = NoDownload
    /\ disabled = LayoutDisabled
    /\ USER_INPUT = UserInput
    /\ sessions = [s \in Sessions |-> Idle]
    /\ arrows = NoArrows
    /\ rowData = <<>>
    /\ selectedRows = NoSelectedRows
    /\ upload = <<>>
    /\ steps = 0
    /\ last = Last("init", NoClick, "", "none")

(* Run main_plot for one trigger and store its outputs.  An exception    *)
(* leaves every output, the pending click included, as it was.  A figure  *)
(* that main_plot returns triggers toggle_update_buttons.                  *)
Fire(button_id, click_data, virtual, active_tab, w) ==
    \E r \in {main_plot(button_id, click_data, virtual, active_tab, selectActive,
                        [PageState EXCEPT !.clickData = click_data], Inputs(w))} :
        /\ figure' = r.figure
        /\ selected' = r.selected
        /\ extremes' = r.extremes
        /\ clickData' = r.clickData
        /\ last' = Last(button_id, click_data, active_tab, r.err)
        /\ disabled' = IF r.err = "none" THEN toggle_update_buttons(r.figure)
                       ELSE disabled
        /\ USER_INPUT' = IF button_id = "draw-button" /\ virtual # <<>>
                         THEN FillUserInput(virtual[1], Inputs(w))
                         ELSE USER_INPUT
        /\ steps < MaxActions
        /\ steps' = steps + 1
        /\ UNCHANGED <<selectVars, colorscaleVars, download, sessions, arrows, tableVars>>

Draw ==
    \E ds \in Datasets, w \in DrawInputs :
        Fire("draw-button", clickData, <<ds>>, "tab-main", w)

DrawNoFiles ==
    \E w \in {Defaults} : Fire("draw-button", clickData, <<>>, "tab-main", w)

Erase ==
    /\ ~disabled["erase-button"]
    /\ \E w \in {Defaults} : Fire("erase-button", clickData, <<>>, "tab-main", w)

RecolorHomologiesAction ==
    /\ ~disabled["change-homology-color-button"]
    /\ \E w \in ColorscaleInputs :
           Fire("change-homology-color-button", clickData, <<>>, "tab-edit", w)

RecolorSelected ==
    /\ ~disabled["change-gene-color-button"]
    /\ \E w \in ColorInputValues :
           Fire("change-gene-color-button", clickData, <<>>, "tab-edit", w)

Click ==
    /\ clickData = NoClick
    /\ \E i \in Indices(figure), tab \in Tabs, w \in {Defaults} :
           Fire("plot", i, <<>>, tab, w)

AnnotateSequencesAction ==
    /\ ~disabled["update-annotate-sequences-button"]
    /\ \E w \in AnnotateSequencesInputs :
           Fire("update-annotate-sequences-button", clickData, <<>>, "tab-annotate", w)

AnnotateGenesAction ==
    /\ ~disabled["update-annotate-genes-button"]
    /\ \E w \in AnnotateGenesInputs :
           Fire("update-annotate-genes-button", clickData, <<>>, "tab-annotate", w)

ScaleBarAction ==
    /\ ~disabled["update-scale-bar-button"]
    /\ \E w \in ScaleBarInputs :
           Fire("update-scale-bar-button", clickData, <<>>, "tab-annotate", w)

(* toggle_select_button that empties the selection store *)
toggle_select_button_ClearsSelection ==
    /\ ~disabled["select-change-color-button"]
    /\ \E r \in {ToggleSelect(1, selectActive)} :
           /\ selectVariant' = r.variant
           /\ selectActive' = r.data
    /\ selected' = <<>>
    /\ last' = Last("select-change-color-button", NoClick, "tab-edit", "none")
    /\ UNCHANGED <<figure, extremes, clickData, colorscaleVars, download, disabled,
                   USER_INPUT, sessions, arrows, tableVars, steps>>

toggle_select_button ==
    /\ ~disabled["select-change-color-button"]
    /\ \E r \in {ToggleSelect(1, selectActive)} :
           /\ selectVariant' = r.variant
           /\ selectActive' = r.data
    /\ last' = Last("select-change-color-button", NoClick, "tab-edit", "none")
    /\ UNCHANGED <<plotVars, colorscaleVars, download, disabled, USER_INPUT, sessions,
                   arrows, tableVars, steps>>

toggle_colorscale_buttons ==
    \E triggered_id \in {"extreme-homologies-button", "truncate-colorscale-button"} :
        /\ \E r \in {ToggleColorscale(triggered_id)} :
               /\ extremeVariant' = r.extreme
               /\ truncateVariant' = r.truncate
               /\ isExtreme' = r.data
        /\ last' = Last(triggered_id, NoClick, "tab-edit", "none")
        /\ UNCHANGED <<plotVars, selectVars, download, disabled, USER_INPUT, sessions,
                       arrows, tableVars, steps>>

(* The calls Dash makes when the page has loaded: the callbacks without    *)
(* prevent_initial_call run once, with no click and nothing triggered.     *)
PageLoad ==
    /\ last.op = "init"
    /\ \E r \in {ToggleSelect(NoClicks, selectActive)} :
           /\ selectVariant' = r.variant
           /\ selectActive' = r.data
    /\ \E r \in {ToggleColorscale("")} :
           /\ extremeVariant' = r.extreme
           /\ truncateVariant' = r.truncate
           /\ isExtreme' = r.data
    /\ disabled' = toggle_update_buttons(figure)
    /\ last' = Last("page-load", NoClick, "tab-main", "none")
    /\ UNCHANGED <<plotVars, download, USER_INPUT, sessions, arrows, tableVars, steps>>


(* Download that drops the figure when the render fails *)
Download_ErasesOnFailure ==
    \E figure_format \in FigureFormats, outcome \in ExportOutcomes(figure) :
        \E r \in {download_plot(figure, figure_format, outcome)} :
            /\ download' = IF r.err = "none" THEN r.data ELSE download
            /\ figure' = IF r.err = "none" THEN figure ELSE EmptyFigure
            /\ last' = Last("download-plot-button", NoClick, "tab-save", r.err)
            /\ steps < MaxActions
            /\ steps' = steps + 1
            /\ UNCHANGED <<selected, extremes, clickData, selectVars, colorscaleVars,
                           disabled, USER_INPUT, sessions, arrows, tableVars>>

(* download_plot: the download component gets the encoded image; an        *)
(* exception leaves it as it was.  The button is never disabled.           *)
Download ==
    \E figure_format \in FigureFormats, outcome \in ExportOutcomes(figure) :
        \E r \in {download_plot(figure, figure_format, outcome)} :
            /\ download' = IF r.err = "none" THEN r.data ELSE download
            /\ last' = Last("download-plot-button", NoClick, "tab-save", r.err)
            /\ steps < MaxActions
            /\ steps' = steps + 1
            /\ UNCHANGED <<plotVars, selectVars, colorscaleVars, disabled, USER_INPUT,
                           sessions, arrows, tableVars>>

(* Draw requests of several pages.  Flask serves each request in a thread  *)
(* of its own; a thread fills USER_INPUT (Fill) and then calls             *)
(* make_figure_gui on it (Build), and another thread may run in between.   *)
SessionOptions ==
    {[Inputs(w) EXCEPT !.is_extreme = e] : w \in DrawInputs, e \in BOOLEAN}

SessionPage(s) ==
    [figure |-> sessions[s].figure, selected |-> <<>>, clickData |-> NoClick,
     extremes |-> <<>>]

Submit(s) ==
    /\ sessions[s].pc = "idle"
    /\ \E ds \in Datasets, inp \in SessionOptions :
           sessions' = [sessions EXCEPT ![s].pc = "fill", ![s].submitted = <<ds, inp>>]
    /\ UNCHANGED <<pageVars, USER_INPUT>>

Fill(s) ==
    /\ sessions[s].pc = "fill"
    /\ USER_INPUT' = FillUserInput(sessions[s].submitted[1], sessions[s].submitted[2])
    /\ sessions' = [sessions EXCEPT ![s].pc = "build"]
    /\ UNCHANGED pageVars

Build(s) ==
    /\ sessions[s].pc = "build"
    /\ \E r \in {PlotUserInput(SessionPage(s), USER_INPUT)} :
           sessions' = [sessions EXCEPT ![s].pc = "done", ![s].figure = r.figure,
                                        ![s].err = r.err]
    /\ UNCHANGED <<pageVars, USER_INPUT>>

Next ==
    \/ PageLoad
    \/ Draw
    \/ DrawNoFiles
    \/ Erase
    \/ RecolorHomologiesAction
    \/ RecolorSelected
    \/ Click
    \/ AnnotateSequencesAction
    \/ AnnotateGenesAction
    \/ ScaleBarAction
    \/ toggle_select_button
    \/ toggle_colorscale_buttons
    \/ Download

Spec == Init /\ [][Next]_vars

(* Sessions that only draw, erase, select and recolor the selection *)
NextSelect ==
    \/ PageLoad
    \/ Draw
    \/ Erase
    \/ Click
    \/ RecolorSelected
    \/ toggle_select_button

SpecSelect == Init /\ [][NextSelect]_vars

(* Sessions that only draw, erase and recolor the homologies *)
NextRecolor ==
    \/ PageLoad
    \/ Draw
    \/ Erase
    \/ RecolorHomologiesAction
    \/ toggle_colorscale_buttons

SpecRecolor == Init /\ [][NextRecolor]_vars

(* Sessions that only draw (in either colorscale mode), erase and toggle  *)
(* the scale bar                                                         *)
NextScaleBar ==
    \/ Draw
    \/ DrawNoFiles
    \/ Erase
    \/ ScaleBarAction
    \/ toggle_colorscale_buttons

SpecScaleBar == Init /\ [][NextScaleBar]_vars

(* Sessions that only draw and update the annotations *)
NextAnnotate ==
    \/ Draw
    \/ AnnotateSequencesAction
    \/ AnnotateGenesAction

SpecAnnotate == Init /\ [][NextAnnotate]_vars

(* Sessions that only draw, erase, select and download *)
NextExport ==
    \/ Draw
    \/ Erase
    \/ Click
    \/ toggle_select_button
    \/ Download

SpecExport == Init /\ [][NextExport]_vars

(* Sessions of the buttons and clicks that main_plot handles; the update  *)
(* of the sequence labels stands for the two annotation updates.           *)
NextMainPlot ==
    \/ Draw
    \/ DrawNoFiles
    \/ Erase
    \/ Click
    \/ RecolorHomologiesAction
    \/ RecolorSelected
    \/ AnnotateSequencesAction
    \/ ScaleBarAction
    \/ toggle_select_button

SpecMainPlot == Init /\ [][NextMainPlot]_vars

(* The file table: uploads, ticks and Delete Selected *)
NextFiles ==
    \/ UploadFiles
    \/ OtherTrigger
    \/ SelectRows
    \/ DeleteSelected

SpecFiles == Init /\ [][NextFiles]_vars

(* The script arrows_plotly.py *)
NextArrows ==
    \/ PlotArrow

SpecArrows == Init /\ [][NextArrows]_vars

(* Two pages whose Draw requests are handled by the same server process *)
NextSessions ==
    \/ \E s \in Sessions : Submit(s)
    \/ \E s \in Sessions : Fill(s)
    \/ \E s \in Sessions : Build(s)

SpecSessions == Init /\ [][NextSessions]_vars

-----------------------------------------------------------------------------
(* Properties *)

Selection == ToSet(selected)

MainPlotStep(button_id) == steps' = steps + 1 /\ last'.op = button_id

SelectClickStep ==
    MainPlotStep("plot") /\ selectActive /\ last'.tab = "tab-edit"

Visual(t) == <<t.fill, t.line, t.width>>

Emphasized(t) == t.line = EmphasisColor /\ t.width > 1

SameTrace(t, u) == t.cat = u.cat /\ t.key = u.key

CountOf(fig, cat) == Cardinality(find_by_category(fig, cat))

(* C1: in select mode on the edit tab, a click on curve number i toggles   *)
(* exactly the membership of i in the Selection Set: it is added when it   *)
(* was absent and removed when it was present; no other index changes.     *)
C1_ClickTogglesMembership ==
    [][SelectClickStep =>
         LET i == last'.idx IN
         ToSet(selected') = IF i \in Selection THEN Selection \ {i}
                            ELSE Selection \cup {i}]_vars

C1_Witness ==
    /\ last.op = "plot" /\ last.tab = "tab-edit" /\ selectActive
    /\ last.idx \in Selection
    /\ Len(selected) = 2

(* C2: a click that deselects curve number i sets the outline colour of    *)
(* that trace to its own fill colour and its outline width to 1; its fill  *)
(* and every other trace stay as they were.                                *)
C2_DeselectRestoresOutline ==
    [][(SelectClickStep /\ last'.idx \in Selection) =>
         LET i == last'.idx IN
         /\ Len(figure'.data) = Len(figure.data)
         /\ At(figure', i) = [At(figure, i) EXCEPT !.line = At(figure, i).fill,
                                                   !.width = 1]
         /\ \A j \in Indices(figure) \ {i} : At(figure', j) = At(figure, j)]_vars

C2_Witness ==
    /\ last.op = "plot" /\ last.tab = "tab-edit" /\ selectActive
    /\ last.idx \notin Selection
    /\ At(figure, last.idx).cat = "homology"
    /\ At(figure, last.idx).line = At(figure, last.idx).fill
    /\ At(figure, last.idx).width = 1

(* C3: clicking the same curve number twice in a row in select mode gives  *)
(* back the Selection Set and the fill colour, outline colour and outline  *)
(* width of every trace.                                                   *)
C3_ToggleTwiceIsIdentity ==
    \A i \in Indices(figure) :
        LET once == SelectTrace(PageState, i)
            twice == SelectTrace([PageState EXCEPT !.figure = once.figure,
                                                   !.selected = once.selected], i)
        IN  /\ ToSet(twice.selected) = Selection
            /\ Len(twice.figure.data) = Len(figure.data)
            /\ \A j \in Indices(figure) :
                   Visual(At(twice.figure, j)) = Visual(At(figure, j))

(* C4: recolor-selected gives every trace whose curve number is in the     *)
(* Selection Set the chosen colour as fill and as outline, with outline    *)
(* width 1, leaves every other trace as it was and empties the Selection   *)
(* Set (whenever the command completes).                                   *)
C4_RecolorSelected ==
    [][(MainPlotStep("change-gene-color-button") /\ last'.err = "none") =>
         /\ selected' = <<>>
         /\ Len(figure'.data) = Len(figure.data)
         /\ \E c \in ColorInputs :
              \A j \in Indices(figure) :
                  At(figure', j) = IF j \in Selection
                                   THEN [At(figure, j) EXCEPT !.fill = Solid(c),
                                                              !.line = Solid(c),
                                                              !.width = 1]
                                   ELSE At(figure, j)]_vars

C4_Witness ==
    /\ last.op = "change-gene-color-button" /\ last.err = "none"
    /\ selected = <<>>
    /\ Cardinality({j \in Indices(figure) :
                       \E c \in ColorInputs : At(figure, j).fill = Solid(c)}) = 2

(* C5: recolor-selected on an empty Selection Set raises nothing, returns  *)
(* the figure unchanged and leaves the Selection Set empty.                *)
C5_RecolorEmptySelection ==
    [][(MainPlotStep("change-gene-color-button") /\ selected = <<>>) =>
         /\ last'.err = "none"
         /\ figure' = figure
         /\ selected' = <<>>]_vars

C5_Witness ==
    /\ last.op = "change-gene-color-button" /\ last.err = "none"
    /\ steps = 2
    /\ HasData(figure)
    /\ selected = <<>>

(* C6: every curve number in the Selection Set is the index of a trace     *)
(* that carries the emphasis outline (the selection colour, width > 1).    *)
C6_SelectedCarryEmphasis ==
    \A i \in Selection : i \in Indices(figure) /\ Emphasized(At(figure, i))

(* C7: after an action that removes traces by category (recolor            *)
(* homologies, the annotation updates, the scale-bar toggle), every curve  *)
(* number in the returned Selection Set refers to the trace it referred to *)
(* before the action.                                                      *)
C7_RemovalKeepsSelectionResolved ==
    [][(/\ steps' = steps + 1
        /\ last'.op \in {"change-homology-color-button",
                         "update-annotate-sequences-button",
                         "update-annotate-genes-button",
                         "update-scale-bar-button"}
        /\ last'.err = "none") =>
         \A i \in ToSet(selected') :
             i \in Indices(figure) =>
                 /\ i \in Indices(figure')
                 /\ SameTrace(At(figure', i), At(figure, i))]_vars

(* C8: a drawn figure has exactly one legend trace, however many times     *)
(* recolor-homologies has run on it.                                       *)
C8_OneLegend == HasData(figure) => CountOf(figure, "legend") = 1

C8_Witness ==
    /\ last.op = "change-homology-color-button" /\ last.err = "none"
    /\ steps >= 3
    /\ CountOf(figure, "scale-bar") = 1
    /\ At(figure, Len(figure.data) - 1).cat = "legend"

(* C9: the figure never holds more than one scale-bar trace.               *)
C9_AtMostOneScaleBar == CountOf(figure, "scale-bar") <= 1

C9_Witness ==
    /\ last.op = "update-scale-bar-button" /\ last.err = "none"
    /\ steps >= 3
    /\ CountOf(figure, "scale-bar") = 1
    /\ At(figure, Len(figure.data) - 1).cat = "scale-bar"
    /\ CountOf(figure, "annotation:sequence") = 0

(* C10: updating the sequence annotations twice with the same mode gives   *)
(* the same figure as updating them once, with one sequence label per      *)
(* track, or none for the mode "no".                                       *)
C10_AnnotateSequencesIdempotent ==
    HasData(figure) =>
        \A w \in AnnotateSequencesInputs :
            LET once == UpdateAnnotateSequences(PageState, Inputs(w))
                twice == UpdateAnnotateSequences(
                             [PageState EXCEPT !.figure = once.figure], Inputs(w))
            IN  /\ twice.figure = once.figure
                /\ CountOf(once.figure, "annotation:sequence") =
                       IF w.annotate_sequences = "no" THEN 0 ELSE figure.tracks

C10_Witness ==
    /\ last.op = "update-annotate-sequences-button" /\ last.err = "none"
    /\ steps >= 3
    /\ CountOf(figure, "annotation:sequence") = figure.tracks
    /\ figure.tracks > 0

(* C11: updating the gene annotations with the placement "top-bottom"      *)
(* twice in a row gives the same number of traces and of gene labels as    *)
(* updating them once.                                                     *)
C11_AnnotateGenesTwiceSameCount ==
    HasData(figure) =>
        \A w \in {x \in AnnotateGenesInputs : x.annotate_genes = "top-bottom"} :
            LET once == UpdateAnnotateGenes(PageState, Inputs(w))
                twice == UpdateAnnotateGenes(
                             [PageState EXCEPT !.figure = once.figure], Inputs(w))
            IN  /\ Len(twice.figure.data) = Len(once.figure.data)
                /\ CountOf(twice.figure, "annotation:gene") =
                       CountOf(once.figure, "annotation:gene")

C11_Witness ==
    /\ last.op = "update-annotate-genes-button" /\ last.err = "none"
    /\ steps >= 3
    /\ CountOf(figure, "gene") > 0
    /\ CountOf(figure, "annotation:gene") = 2 * CountOf(figure, "gene")

PlacementSides(placement) ==
    IF placement = "top" THEN {TopSide}
    ELSE IF placement = "bottom" THEN {BottomSide}
    ELSE IF placement = "top-bottom" THEN {TopSide, BottomSide}
    ELSE {}

GeneLabelsOn(fig, side) ==
    {i \in find_by_category(fig, "annotation:gene") : At(fig, i).payload[2] = side}

GeneKeys(fig, curve_numbers) == {At(fig, i).key : i \in curve_numbers}

(* C12: an update of the gene annotations with placement p leaves exactly  *)
(* the gene labels of p: for each side of p one label per gene, and no     *)
(* label on a side that p does not name, whatever labels were shown.       *)
C12_GeneLabelsFollowPlacement ==
    HasData(figure) =>
        \A w \in AnnotateGenesInputs :
            LET r == main_plot("update-annotate-genes-button", NoClick, <<>>,
                               "tab-annotate", selectActive, PageState, Inputs(w))
                genes == find_by_category(r.figure, "gene")
            IN  /\ r.err = "none"
                /\ \A side \in {TopSide, BottomSide} :
                       LET labels == GeneLabelsOn(r.figure, side) IN
                       IF side \in PlacementSides(w.annotate_genes)
                       THEN /\ Cardinality(labels) = Cardinality(genes)
                            /\ GeneKeys(r.figure, labels) = GeneKeys(r.figure, genes)
                       ELSE labels = {}

C12_Witness ==
    /\ last.op = "update-annotate-genes-button" /\ last.err = "none"
    /\ steps >= 3
    /\ GeneLabelsOn(figure, BottomSide) # {}
    /\ GeneLabelsOn(figure, TopSide) = {}

Categories ==
    {"gene", "homology", "legend", "annotation:sequence", "annotation:gene", "scale-bar"}

Before(fig, curve_numbers) ==
    {i \in Indices(fig) : \A j \in curve_numbers : i < j}

(* C13: after remove_by_category(c) no trace of category c is found, and   *)
(* every trace that stood before the first trace of c keeps its curve      *)
(* number and all its attributes; so it is for the removal of the sequence *)
(* labels that the update of the sequence annotations makes.               *)
C13_RemoveThenFindIsEmpty ==
    /\ \A c \in Categories :
           LET removed == remove_by_category(figure, c)
               hit == find_by_category(figure, c)
           IN  /\ find_by_category(removed, c) = {}
               /\ \A i \in Before(figure, hit) :
                      /\ i \in Indices(removed)
                      /\ At(removed, i) = At(figure, i)
    /\ HasData(figure) =>
           LET r == UpdateAnnotateSequences(PageState,
                        Inputs([Defaults EXCEPT !.annotate_sequences = "no"]))
               hit == find_by_category(figure, "annotation:sequence")
           IN  /\ find_by_category(r.figure, "annotation:sequence") = {}
               /\ \A i \in Before(figure, hit) :
                      /\ i \in Indices(r.figure)
                      /\ At(r.figure, i) = At(figure, i)

C13_Witness ==
    /\ last.op = "update-annotate-genes-button" /\ last.err = "none"
    /\ \E i \in find_by_category(figure, "annotation:sequence") :
           /\ i > 0
           /\ \E j \in Indices(figure) :
                  j > i /\ At(figure, j).cat = "annotation:gene"

C15_DownloadKeepsScene ==
    [][last'.op = "download-plot-button" =>
         /\ figure' = figure
         /\ selected' = selected
         /\ extremes' = extremes]_vars

C15_Witness ==
    /\ last.op = "download-plot-button" /\ last.err = "RenderFailure"
    /\ download # NoDownload
    /\ HasData(figure)
    /\ selected # <<>>

(* C16: the figure a page gets back from its Draw is the figure of the     *)
(* options that page submitted, however the requests of other pages        *)
(* interleave with it.                                                     *)
C16_FigureFromOwnOptions ==
    \A s \in Sessions :
        sessions[s].pc = "done" =>
            LET own == PlotSequences(SessionPage(s), sessions[s].submitted[1],
                                     sessions[s].submitted[2])
            IN  /\ sessions[s].err = own.err
                /\ sessions[s].err = "none" => sessions[s].figure = own.figure

EmptySceneActions ==
    {"change-homology-color-button", "update-annotate-sequences-button",
     "update-annotate-genes-button", "update-scale-bar-button",
     "download-plot-button"}

(* C17: recolor homologies, annotate sequences, annotate genes, toggle     *)
(* scale bar or download, run on a figure without traces, fails with       *)
(* EmptySceneError.                                                        *)
C17_EmptySceneFails ==
    [][(/\ steps' = steps + 1
        /\ last'.op \in EmptySceneActions
        /\ ~HasData(figure)) => last'.err = "EmptySceneError"]_vars

C19_SelectModeMachine ==
    /\ ~selectActive
    /\ [][/\ last'.op = "select-change-color-button" => selectActive' = ~selectActive
          /\ last'.op # "select-change-color-button" => UNCHANGED selectVars]_vars
    /\ [](selectVariant = (IF selectActive THEN "filled" ELSE "outline"))

C19_Witness ==
    /\ last.op = "select-change-color-button"
    /\ ~selectActive
    /\ selectVariant = "outline"

(* C20: the colorscale mode starts as truncate (not extreme); it is        *)
(* extreme exactly when the last press was the extreme-homologies button;  *)
(* exactly the button of the current mode is "filled"; a press of that     *)
(* button and every other callback change nothing of it.                   *)
C20_ColorscaleModeMachine ==
    /\ ~isExtreme
    /\ [][/\ last'.op = "extreme-homologies-button" => isExtreme'
          /\ last'.op = "truncate-colorscale-button" => ~isExtreme'
          /\ last'.op \notin {"extreme-homologies-button", "truncate-colorscale-button"}
                => UNCHANGED colorscaleVars
          /\ (last'.op = "extreme-homologies-button" /\ isExtreme)
                => UNCHANGED colorscaleVars
          /\ (last'.op = "truncate-colorscale-button" /\ ~isExtreme)
                => UNCHANGED colorscaleVars]_vars
    /\ [](/\ extremeVariant = (IF isExtreme THEN "filled" ELSE "subtle")
          /\ truncateVariant = (IF isExtreme THEN "subtle" ELSE "filled"))

C20_Witness ==
    /\ last.op = "truncate-colorscale-button"
    /\ ~isExtreme
    /\ truncateVariant = "filled"
    /\ \E i \in find_by_category(figure, "legend") : At(figure, i).payload[5] = 1

(* C21: a click on a trace while select mode is off, or while the active   *)
(* tab is not the edit tab, leaves the figure, the Selection Set and the   *)
(* stored extremes as they were.                                           *)
C21_ClickOutsideSelectMode ==
    [][(MainPlotStep("plot") /\ (~selectActive \/ last'.tab # "tab-edit")) =>
         /\ last'.err = "none"
         /\ figure' = figure
         /\ selected' = selected
         /\ extremes' = extremes]_vars

C21_Witness ==
    /\ last.op = "plot" /\ last.tab = "tab-main" /\ last.err = "none"
    /\ selectActive
    /\ selected # <<>>
    /\ last.idx \notin Selection

Selectable == {"gene", "homology"}

(* C22: in select mode a click on a trace that is neither a gene nor a     *)
(* homology (a label, the scale bar, the legend) leaves the Selection Set  *)
(* and the outline of that trace as they were.                             *)
C22_OnlyGenesAndHomologiesSelected ==
    [][(SelectClickStep /\ At(figure, last'.idx).cat \notin Selectable) =>
         /\ selected' = selected
         /\ At(figure', last'.idx).line = At(figure, last'.idx).line
         /\ At(figure', last'.idx).width = At(figure, last'.idx).width]_vars

(* C27: Erase returns the empty figure, an empty Selection Set, an empty   *)
(* extremes store and no pending click, whatever the state was.            *)
C27_EraseEmptiesThePage ==
    /\ [][MainPlotStep("erase-button") =>
            /\ last'.err = "none"
            /\ figure' = EmptyFigure
            /\ selected' = <<>>
            /\ extremes' = <<>>
            /\ clickData' = NoClick]_vars
    /\ [](LET r == main_plot("erase-button", clickData, <<>>, "tab-main", selectActive,
                             PageState, Inputs(Defaults))
          IN  /\ r.err = "none"
              /\ r.figure = EmptyFigure /\ r.selected = <<>>
              /\ r.extremes = <<>> /\ r.clickData = NoClick)

C27_Witness ==
    /\ last.op = "erase-button" /\ last.err = "none"
    /\ steps >= 3
    /\ figure = EmptyFigure /\ selected = <<>> /\ extremes = <<>>
    /\ selectActive

(* C30: every curve number in the Selection Set is an index of the trace   *)
(* list of the current figure.                                             *)
C30_SelectionIndicesValid ==
    \A i \in Selection : i \in Indices(figure)

RecolorIn(w, extreme) ==
    main_plot("change-homology-color-button", NoClick, <<>>, "tab-edit",
              selectActive, PageState, [Inputs(w) EXCEPT !.is_extreme = extreme])

(* C23: in extreme mode, on a figure whose stored lowest and highest       *)
(* identities are equal, recolor homologies raises nothing and gives every *)
(* homology the colour at the midpoint of the truncation window.           *)
C23_ExtremeModeMidpoint ==
    (HasData(figure) /\ Len(extremes) = 2 /\ extremes[1] = extremes[2]) =>
        \A w \in ColorscaleInputs :
            ValidWindow(w.range_slider) =>
                LET r == RecolorIn(w, TRUE)
                    mid == (w.range_slider[1] + w.range_slider[2]) * 500
                IN  /\ r.err = "none"
                    /\ \A i \in find_by_category(r.figure, "homology") :
                           At(r.figure, i).fill = <<w.color_scale, mid>>

C23_Witness ==
    /\ last.op = "change-homology-color-button" /\ last.err = "none"
    /\ isExtreme
    /\ Len(extremes) = 2 /\ extremes[1] = extremes[2]
    /\ \E i \in find_by_category(figure, "homology") :
           At(figure, i).fill = <<"Greys", 37500>>

(* C24: in fixed mode a homology of identity p is coloured at              *)
(* vmin + (p / 100) * (vmax - vmin), whatever the stored lowest and        *)
(* highest identities are, by Draw and by recolor homologies; identity     *)
(* 87.5 in the window [0, 0.75] gets the colour at 0.65625.                *)
C24_FixedModeLinear ==
    /\ (HasData(figure) /\ Len(extremes) = 2) =>
           \A w \in ColorscaleInputs :
               ValidWindow(w.range_slider) =>
                   LET r == RecolorIn(w, FALSE) IN
                   /\ r.err = "none"
                   /\ \A i \in find_by_category(r.figure, "homology") :
                          LET t == At(r.figure, i) IN
                          /\ t.fill = <<w.color_scale,
                                        w.range_slider[1] * 1000
                                        + t.payload[1] * (w.range_slider[2] - w.range_slider[1])>>
                          /\ (t.payload[1] = 875 /\ w.range_slider = <<0, 75>>)
                                 => t.fill = <<"Greys", 65625>>
    /\ (last.op = "draw-button" /\ last.err = "none" /\ HasData(figure) /\ ~isExtreme) =>
           \A i \in find_by_category(figure, "homology") :
               LET t == At(figure, i) IN
               t.fill = <<USER_INPUT.identity_color,
                          USER_INPUT.colorscale_vmin * 1000
                          + t.payload[1] * (USER_INPUT.colorscale_vmax
                                            - USER_INPUT.colorscale_vmin)>>

C24_Witness ==
    /\ last.op = "change-homology-color-button" /\ last.err = "none"
    /\ ~isExtreme
    /\ steps >= 3
    /\ extremes = <<500, 875>>
    /\ \E i \in find_by_category(figure, "homology") :
           At(figure, i).payload[1] = 875 /\ At(figure, i).fill = <<"Greys", 65625>>
    /\ \E i \in find_by_category(figure, "legend") : At(figure, i).payload[5] = 0

(* C26: a figure built with minimum homology length L has exactly the      *)
(* homology traces of the segments of length L or more; with L = 50 the    *)
(* 30 bp segment gives no trace.                                           *)
C26_ShortHomologiesDropped ==
    \A ds \in Datasets, w \in DrawInputs :
        LET r == main_plot("draw-button", NoClick, <<ds>>, "tab-main", selectActive,
                           PageState, Inputs(w))
            L == w.minimum_homology_length
            kept == {<<pair, j>> \in (1 .. (ds.tracks - 1)) \X (1 .. 2) :
                        j <= Len(ds.segs[pair]) /\ ds.segs[pair][j].length >= L}
            homologies == find_by_category(r.figure, "homology")
        IN  /\ r.err = "none"
            /\ \A i \in homologies : At(r.figure, i).payload[2] >= L
            /\ Cardinality(homologies) = Cardinality(kept)
            /\ L = 50 => \A i \in homologies : At(r.figure, i).payload[2] # 30

C26_Witness ==
    /\ last.op = "draw-button" /\ last.err = "none"
    /\ HasData(figure)
    /\ USER_INPUT.minimum_homology_length = 50
    /\ CountOf(figure, "homology") = 1
    /\ \A i \in find_by_category(figure, "homology") : At(figure, i).payload[2] = 100

(* C29: whenever the figure has a trace, the extremes store holds two      *)
(* values, the lowest and the highest identity of the figure's             *)
(* homologies, and recolor homologies does not fail on a missing value.    *)
C29_ExtremesStoredWithFigure ==
    HasData(figure) =>
        /\ Len(extremes) = 2
        /\ extremes = <<lowest_identity(figure.data), highest_identity(figure.data)>>
        /\ \A w \in ColorscaleInputs : RecolorIn(w, isExtreme).err # "IndexError"

C29_Witness ==
    /\ last.op = "change-homology-color-button" /\ last.err = "none"
    /\ steps >= 4
    /\ HasData(figure)
    /\ extremes = <<875, 875>>

(* C28: the seven update buttons are all disabled exactly when the figure  *)
(* is absent or has no trace and all enabled otherwise; they always share  *)
(* the same state.                                                         *)
C28_UpdateButtonsFollowFigure ==
    \A b \in UpdateButtons : disabled[b] = ~HasData(figure)

RECURSIVE SeqMin(_)
SeqMin(xs) ==
    IF Len(xs) = 1 THEN xs[1]
    ELSE LET m == SeqMin(Tail(xs)) IN IF xs[1] < m THEN xs[1] ELSE m

RECURSIVE SeqMax(_)
SeqMax(xs) ==
    IF Len(xs) = 1 THEN xs[1]
    ELSE LET m == SeqMax(Tail(xs)) IN IF xs[1] > m THEN xs[1] ELSE m

C31_NoDuplicateIndices ==
    /\ [](\A i, j \in 1 .. Len(selected) : selected[i] = selected[j] => i = j)
    /\ [][(SelectClickStep /\ last'.idx \in Selection) =>
             last'.idx \notin ToSet(selected')]_vars

C31_Witness ==
    /\ last.op = "plot" /\ last.tab = "tab-edit" /\ last.err = "none"
    /\ selectActive
    /\ steps = 4
    /\ Len(selected) = 1
    /\ last.idx \notin Selection

ButtonsAfterSelect ==
    {"draw-button", "update-annotate-sequences-button",
     "update-annotate-genes-button", "update-scale-bar-button"}

(* C32: after every run of main_plot no click is pending, and a draw,      *)
(* annotate or scale-bar action does not toggle the selection.             *)
C32_ClickAlwaysReset ==
    /\ [](clickData = NoClick)
    /\ [][(steps' = steps + 1 /\ last'.op \in ButtonsAfterSelect) =>
             selected' = selected]_vars

C32_Witness ==
    /\ last.op \in ButtonsAfterSelect /\ last.op # "draw-button"
    /\ last.err = "none"
    /\ selectActive
    /\ clickData = NoClick
    /\ \E i \in Selection : i \in Indices(figure) /\ At(figure, i).line = EmphasisColor

ExtremesWriters == {"draw-button", "erase-button"}

(* C33: the extremes store is changed only by Draw, which stores the       *)
(* lowest and highest identity of the new figure, and by Erase, which      *)
(* empties it; every other callback returns it as it was.                  *)
C33_ExtremesFrame ==
    /\ [](\A w \in AnnotateGenesInputs :
            main_plot("update-annotate-genes-button", clickData, <<>>, "tab-annotate",
                      selectActive, PageState, Inputs(w)).extremes = extremes)
    /\ [][/\ last'.op \notin ExtremesWriters => extremes' = extremes
          /\ (MainPlotStep("erase-button") /\ last'.err = "none") => extremes' = <<>>
          /\ (MainPlotStep("draw-button") /\ last'.err = "none") =>
                 \/ extremes' = extremes /\ figure' = figure
                 \/ extremes' = <<lowest_identity(figure'.data),
                                  highest_identity(figure'.data)>>]_vars

C33_Witness ==
    /\ last.op = "update-scale-bar-button" /\ last.err = "none"
    /\ steps = 4
    /\ extremes = <<875, 875>>
    /\ selected # <<>>
    /\ CountOf(figure, "scale-bar") = 0

(* C34: switching select mode changes neither the selection store nor the  *)
(* figure, and recolor selected pressed with select mode off recolors the  *)
(* stored traces and empties the store.                                    *)
C34_SelectSwitchKeepsSelection ==
    [][/\ selectActive' # selectActive =>
              (selected' = selected /\ figure' = figure /\ extremes' = extremes)
       /\ (MainPlotStep("change-gene-color-button") /\ ~selectActive
             /\ last'.err = "none") =>
              /\ selected' = <<>>
              /\ \E c \in ColorInputs :
                     \A j \in Indices(figure) :
                         /\ j \in Selection =>
                                (At(figure', j).fill = Solid(c)
                                 /\ At(figure', j).line = Solid(c))
                         /\ j \notin Selection => At(figure', j) = At(figure, j)]_vars

C34_Witness ==
    /\ last.op = "change-gene-color-button" /\ last.err = "none"
    /\ ~selectActive
    /\ steps = 3
    /\ selected = <<>>
    /\ \E j \in Indices(figure), c \in ColorInputs : At(figure, j).fill = Solid(c)

(* C35: Draw with an empty file list returns the figure, the selection     *)
(* store and the extremes store as they were.                              *)
C35_DrawWithoutFilesBuildsNothing ==
    main_plot("draw-button", clickData, <<>>, "tab-main", selectActive, PageState,
              Inputs(Defaults))
        = Return(figure, selected, NoClick, extremes)

C35_Witness ==
    /\ last.op = "draw-button" /\ last.err = "none"
    /\ extremes = <<500, 875>>
    /\ \E i \in Selection : i \in Indices(figure) /\ At(figure, i).line = EmphasisColor

UploadedRows(filenames) ==
    [k \in 1 .. Len(filenames) |->
        [filename |-> filenames[k], filepath |-> <<"TMP_PATH", filenames[k]>>]]

(* C36: an upload of n files appends exactly n rows, in upload order,      *)
(* after the rows of the table, which stay as they were; a trigger that is *)
(* neither an upload with files nor a delete leaves the table unchanged.   *)
C36_UploadAppendsRows ==
    [][/\ last'.op = "upload" =>
              /\ last'.err = "none"
              /\ Len(rowData') = Len(rowData) + Len(upload')
              /\ rowData' = rowData \o UploadedRows(upload')
       /\ last'.op = "no-files" => (last'.err = "none" /\ rowData' = rowData)]_vars

C36_Witness ==
    /\ last.op = "upload" /\ last.err = "none"
    /\ upload = <<"a.gb", "b.gb">>
    /\ Len(rowData) = 3
    /\ rowData[1].filename = "b.gb"
    /\ rowData[2].filename = "a.gb"
    /\ rowData[3].filename = "b.gb"

(* C37: Delete Selected succeeds, removes exactly the rows that are among  *)
(* the selected rows and keeps the others in their order; with no row      *)
(* selected or an empty table it leaves the table unchanged.               *)
C37_DeleteRemovesSelectedRows ==
    [][last'.op = "delete-selected-files-button" =>
          /\ last'.err = "none"
          /\ rowData' = NotIn(rowData, ToSet(selectedRows.rows))
          /\ (selectedRows.rows = <<>> \/ rowData = <<>>) => rowData' = rowData]_vars

====
